---------------------------- MODULE Spec2Model ----------------------------
(***************************************************************************)
(* One run of the kube-client-template command line, in its three source   *)
(* variants:                                                               *)
(*   VInteractive  src/cmd/root.go       (--interactive, plain printing)   *)
(*   VHidden       src/unnamed/part_000  (zap logger everywhere, hidden    *)
(*                                        kubernetes-* flags)              *)
(*   VLogging      src/unnamed/part_001  (zap logger in PersistentPreRun,  *)
(*                                        plain printing elsewhere)        *)
(*                                                                         *)
(* The run is the one cobra performs for a command whose hooks it fires:   *)
(* flags are parsed, the cobra.OnInitialize callbacks (initConfig) run,    *)
(* then rootCmd.PersistentPreRun runs, then Execute returns.  What the     *)
(* file system, the kubeconfig sources, the client constructor and the API *)
(* server answer is chosen nondeterministically at the step that asks.     *)
(***************************************************************************)
EXTENDS Naturals, Sequences, FiniteSets, TLC

VARIABLES
    variant,                    \* which of the three source files is built
    homeOk,                     \* homedir.Dir() returns no error
    pc,                         \* position of the run
    argv,                       \* the command line as the user gave it
    cfgFile,                    \* var cfgFile
    interactive,                \* var interactive (root.go only)
    logLevel,                   \* var logLevel (logging variants)
    kubeConfigFile,             \* var kubeConfigFile
    kubeClientConfigOverrides,  \* var kubeClientConfigOverrides
    logger,                     \* var logger: "nil" or "built"
    kubeClient,                 \* var kubeClient: "nil" or "set"
    explicitPath,               \* kubeConfigLoader.ExplicitPath
    restConfig,                 \* restConfig returned by kubeConfig.ClientConfig()
    configFileUsed,             \* viper.ConfigFileUsed() after a successful read
    cfgEnv,                     \* the config files initConfig met on disk
    kubeEnv,                    \* the kubeconfig sources ClientConfig met
    out,                        \* what was printed or logged, in order
    listRequests,               \* namespaces of the Pods list requests issued
    trace,                      \* the pipeline steps run so far, with their result
    exitCode                    \* exit status, meaningful when pc = "exited"

vars == << variant, homeOk, pc, argv, cfgFile, interactive, logLevel,
           kubeConfigFile, kubeClientConfigOverrides, logger, kubeClient,
           explicitPath, restConfig, configFileUsed, cfgEnv, kubeEnv, out,
           listRequests, trace, exitCode >>

VInteractive == "cmd/root.go"
VHidden      == "part_000"
VLogging     == "part_001"
Variants     == {VInteractive, VHidden, VLogging}

\* the variants that declare var logger *zap.Logger
UsesLogger(v) == v \in {VHidden, VLogging}

-----------------------------------------------------------------------------
(* Values *)

RecommendedHomeFile == "~/.kube/config"
GoodKubeconfig      == "/good/kubeconfig"
BadKubeconfig       == "/bad/path"
ExplicitConfig      == "/etc/app.yaml"
HomeConfig          == "~/.kube-client-template.yaml"
CwdConfig           == "./.kube-client-template.yaml"

FileStatus == {"absent", "valid", "unreadable"}
LogLevels  == {"debug", "info", "error"}
Fields     == {"cluster", "context", "namespace", "user"}

NoConfigEnv == [explicit |-> "absent", home |-> "absent", cwd |-> "absent"]
NoKubeEnv   == [homeFile |-> FALSE, envFile |-> FALSE, inCluster |-> FALSE,
                prompt |-> FALSE, found |-> [f \in Fields |-> ""]]
NoOverrides == [f \in Fields |-> ""]
NoArgv      == [bad |-> FALSE, config |-> "", kubeconfig |-> "",
                interactive |-> FALSE, logLevel |-> "info",
                overrides |-> NoOverrides]


OverrideSets   == [Fields -> {"", "from-flag"}]
\* what a kubeconfig source holds: every field but the namespace is required
DiscoveredSets == { d \in [Fields -> {"", "from-file"}] :
                      d["cluster"] # "" /\ d["context"] # "" /\ d["user"] # "" }

\* the command lines of variant v; one stands for all that fail to parse
Argvs(v) ==
    { a \in [ bad         : BOOLEAN,
              config      : {"", ExplicitConfig},
              kubeconfig  : {"", GoodKubeconfig, BadKubeconfig},
              interactive : IF v = VInteractive THEN BOOLEAN ELSE {FALSE},
              logLevel    : IF UsesLogger(v) THEN LogLevels ELSE {"info"},
              overrides   : OverrideSets ] :
        a.bad => a = [NoArgv EXCEPT !.bad = TRUE] }

\* the config files on disk; without a home directory there is no file in it
CfgEnvs(h) ==
    { e \in [explicit : FileStatus, home : FileStatus, cwd : FileStatus] :
        ~h => e.home = "absent" }

KubeEnvs ==
    [ homeFile : BOOLEAN, envFile : BOOLEAN, inCluster : BOOLEAN,
      prompt : BOOLEAN, found : DiscoveredSets ]

-----------------------------------------------------------------------------
(* Pure helpers *)

\* default of the kubeconfig path flag registered by init()
DefaultKubeConfigFile(v, h) ==
    IF v = VInteractive /\ h THEN RecommendedHomeFile ELSE ""

\* zap: a message is written when its level is at least the logger's level
LevelRank(l) == CASE l = "debug" -> 0 [] l = "info" -> 1 [] l = "error" -> 2
                  [] l = "fatal" -> 3
Enabled(lvl, minimum) == LevelRank(lvl) >= LevelRank(minimum)

Println(msg, arg) == [via |-> "stdout", level |-> "none", msg |-> msg, arg |-> arg]
LogEntry(lvl, msg, arg) == [via |-> "logger", level |-> lvl, msg |-> msg, arg |-> arg]
\* the entries a built logger at `minimum` writes for one call
Logged(lvl, minimum, msg, arg) ==
    IF Enabled(lvl, minimum) THEN << LogEntry(lvl, msg, arg) >> ELSE << >>

\* a resolver that searches the directories when the --config file is absent
ConfigCandidateFallback(file, h, e) ==
    IF file # "" /\ e.explicit # "absent" THEN [path |-> file, status |-> e.explicit]
    ELSE IF h /\ e.home # "absent" THEN [path |-> HomeConfig, status |-> e.home]
    ELSE IF e.cwd # "absent" THEN [path |-> CwdConfig, status |-> e.cwd]
    ELSE [path |-> "", status |-> "absent"]

\* the file viper.ReadInConfig() settles on: the one set by SetConfigFile, else
\* the first of the AddConfigPath directories holding the SetConfigName base name
ConfigCandidate(file, h, e) ==
    IF file # "" THEN [path |-> file, status |-> e.explicit]
    ELSE IF h /\ e.home # "absent" THEN [path |-> HomeConfig, status |-> e.home]
    ELSE IF e.cwd # "absent" THEN [path |-> CwdConfig, status |-> e.cwd]
    ELSE [path |-> "", status |-> "absent"]

\* the test of initConfig inverted: `err != nil` on a file that was found
ReadInConfigInverted(file, h, e) == ConfigCandidate(file, h, e).status = "unreadable"

\* viper.ReadInConfig() returns nil
ReadInConfigOk(file, h, e) == ConfigCandidate(file, h, e).status = "valid"

\* the path a kubeconfig loader reads when `path` is its ExplicitPath
FileExists(path, k) ==
    \/ path = GoodKubeconfig
    \/ path = RecommendedHomeFile /\ k.homeFile

\* kubeConfig.ClientConfig() returns no error
ClientConfigOk(path, inter, k) ==
    IF path # "" THEN FileExists(path, k)
    ELSE \/ k.envFile \/ k.homeFile \/ k.inCluster
         \/ inter /\ k.prompt

\* one connection field after the overrides are laid over the discovered value
MergedField(override, found) == IF override # "" THEN override ELSE found

\* a client config built with a fresh &clientcmd.ConfigOverrides{}
FreshOverrides(o) == NoOverrides

\* the overrides the client config is built with: the ones the flags are bound to
LoaderOverrides(o) == o

Merged(o, found) == [f \in Fields |-> MergedField(LoaderOverrides(o)[f], found[f])]

\* kubeConfig.Namespace(): the merged namespace, "default" when there is none
Namespace(cfg) == IF cfg["namespace"] = "" THEN "default" ELSE cfg["namespace"]

\* kubeConfigLoader.ExplicitPath after the `if kubeConfigFile != ""` of PersistentPreRun
LoaderExplicitPath(file) == IF file # "" THEN file ELSE ""

PanicEntry == [via |-> "stderr", level |-> "none", msg |-> "panic", arg |-> "nil pointer dereference"]

\* a call of logger.Info / logger.Debug / logger.Fatal on the package-level logger:
\* a nil *zap.Logger panics, a built one writes the entry if its level allows
LoggerCall(lg, minimum, lvl, msg, arg) ==
    IF lg = "nil" THEN [panic |-> TRUE,  entries |-> << PanicEntry >>]
                  ELSE [panic |-> FALSE, entries |-> Logged(lvl, minimum, msg, arg)]

\* how initConfig reports the file it loaded
ConfigReport(v, lg, minimum, path) ==
    IF v = VHidden THEN LoggerCall(lg, minimum, "info", "loaded config from file", path)
    ELSE [panic |-> FALSE, entries |-> << Println("Using config file:", path) >>]

\* how Execute reports the error rootCmd.Execute() returned
ExecuteReport(v, lg, minimum) ==
    IF v = VHidden THEN LoggerCall(lg, minimum, "fatal", "root command failed", "err")
    ELSE [panic |-> FALSE, entries |-> << Println("err", "flags") >>]

\* error branches that report and carry on
ErrorNeverFatal(v, step) == FALSE
\* the error of ClientConfig reported without leaving PersistentPreRun
ClientConfigErrorIgnored(v, step) == step = "List" /\ UsesLogger(v)

\* whether PersistentPreRun ends the run when `step` returns an error:
\* ClientConfig's error is followed by os.Exit(1) or logger.Fatal in every variant,
\* List's error by logger.Fatal in the logging variants and by nothing in root.go
ErrorIsFatal(v, step) ==
    \/ step = "ClientConfig"
    \/ step = "List" /\ UsesLogger(v)

\* an init() that registers no callback
NoInitializers == << >>

\* the callbacks init() registers with cobra.OnInitialize, run once the flags are
\* parsed and before PersistentPreRun
Initializers == << "initConfig" >>

-----------------------------------------------------------------------------
(* The run *)

Goto(p)  == pc' = p /\ exitCode' = exitCode
Exit(c)  == pc' = "exited" /\ exitCode' = c
Step(name, result) == trace' = Append(trace, [step |-> name, result |-> result])

flagVars == << argv, cfgFile, interactive, logLevel, kubeConfigFile,
               kubeClientConfigOverrides >>
initVars == << configFileUsed, cfgEnv >>
runVars  == << logger, kubeClient, explicitPath, restConfig, kubeEnv, listRequests >>

\* the state once package init() has registered the flags
Init ==
    /\ variant \in Variants
    /\ homeOk \in BOOLEAN
    /\ pc = "parse"
    /\ argv = NoArgv
    /\ cfgFile = ""
    /\ interactive = FALSE
    /\ logLevel = "info"
    /\ kubeConfigFile = DefaultKubeConfigFile(variant, homeOk)
    /\ kubeClientConfigOverrides = NoOverrides
    /\ logger = "nil"
    /\ kubeClient = "nil"
    /\ explicitPath = ""
    /\ restConfig = NoOverrides
    /\ configFileUsed = ""
    /\ cfgEnv = NoConfigEnv
    /\ kubeEnv = NoKubeEnv
    /\ out = << >>
    /\ listRequests = << >>
    /\ trace = << >>
    /\ exitCode = 0

\* rootCmd.Execute() parses the command line into the bound variables
ParseFlags ==
    /\ pc = "parse"
    /\ \E a \in Argvs(variant) :
         /\ argv' = a
         /\ IF a.bad
            THEN /\ Goto("executeErr")
                 /\ UNCHANGED << cfgFile, interactive, logLevel, kubeConfigFile,
                                 kubeClientConfigOverrides >>
            ELSE /\ Goto(IF Initializers # << >> THEN Initializers[1] ELSE "preRun")
                 /\ cfgFile' = a.config
                 /\ interactive' = a.interactive
                 /\ logLevel' = a.logLevel
                 /\ kubeConfigFile' = IF a.kubeconfig # "" THEN a.kubeconfig
                                                          ELSE kubeConfigFile
                 /\ kubeClientConfigOverrides' = a.overrides
    /\ UNCHANGED << variant, homeOk, initVars, runVars, out, trace >>

\* Execute(): rootCmd.Execute() returned an error
ExecuteError ==
    /\ pc = "executeErr"
    /\ LET r == ExecuteReport(variant, logger, logLevel) IN
         /\ out' = out \o r.entries
         /\ Exit(IF r.panic THEN 2 ELSE 1)
    /\ UNCHANGED << variant, homeOk, flagVars, initVars, runVars, trace >>

\* initConfig(), the cobra.OnInitialize callback
initConfig ==
    /\ pc = "initConfig"
    /\ \E e \in CfgEnvs(homeOk) :
         /\ cfgFile = "" => e.explicit = "absent"
         /\ cfgEnv' = e
         /\ IF ReadInConfigOk(cfgFile, homeOk, e)
            THEN LET path == ConfigCandidate(cfgFile, homeOk, e).path
                     r    == ConfigReport(variant, logger, logLevel, path)
                 IN  /\ configFileUsed' = path
                     /\ out' = out \o r.entries
                     /\ IF r.panic
                        THEN Step("initConfig", "panic") /\ Exit(2)
                        ELSE Step("initConfig", "ok") /\ Goto("preRun")
            ELSE /\ UNCHANGED << configFileUsed, out >>
                 /\ Step("initConfig", "ok")
                 /\ Goto("preRun")
    /\ UNCHANGED << variant, homeOk, flagVars, runVars >>

\* PersistentPreRun up to the construction of kubeConfig: the logger is built
\* (logging variants) and the loading rules get their explicit path
PreRunSetup ==
    /\ pc = "preRun"
    /\ logger' = IF UsesLogger(variant) THEN "built" ELSE logger
    /\ explicitPath' = LoaderExplicitPath(kubeConfigFile)
    /\ out' = IF UsesLogger(variant) /\ kubeConfigFile # ""
              THEN out \o Logged("info", logLevel, "using specified kube config file",
                                 kubeConfigFile)
              ELSE out
    /\ Goto("clientConfig")
    /\ UNCHANGED << variant, homeOk, flagVars, initVars, kubeClient, restConfig,
                    kubeEnv, listRequests, trace >>

\* restConfig, err := kubeConfig.ClientConfig() and its error branch
ClientConfig ==
    /\ pc = "clientConfig"
    /\ \E k \in KubeEnvs :
         /\ ~interactive => ~k.prompt
         /\ kubeEnv' = k
         /\ IF ClientConfigOk(explicitPath, interactive, k)
            THEN /\ restConfig' = Merged(kubeClientConfigOverrides, k.found)
                 /\ Step("ClientConfig", "ok")
                 /\ Goto("newClient")
                 /\ out' = out
            ELSE /\ restConfig' = restConfig
                 /\ Step("ClientConfig", "error")
                 /\ IF ErrorIsFatal(variant, "ClientConfig") THEN Exit(1)
                                                             ELSE Goto("newClient")
                 /\ out' = IF UsesLogger(variant)
                           THEN out \o LoggerCall(logger, logLevel, "fatal",
                                          "failed to get REST config", "err").entries
                           ELSE Append(out, Println("err", "ClientConfig"))
    /\ UNCHANGED << variant, homeOk, flagVars, initVars, logger, kubeClient,
                    explicitPath, listRequests >>

\* kubeClient = kubernetes.NewForConfigOrDie(restConfig)
NewForConfigOrDie ==
    /\ pc = "newClient"
    /\ \E ok \in BOOLEAN :
         IF ok
         THEN /\ kubeClient' = "set"
              /\ Step("NewForConfigOrDie", "ok")
              /\ Goto("listPods")
              /\ out' = out
         ELSE /\ kubeClient' = kubeClient
              /\ Step("NewForConfigOrDie", "panic")
              /\ Exit(2)
              /\ out' = Append(out, [PanicEntry EXCEPT !.arg = "NewForConfigOrDie"])
    /\ UNCHANGED << variant, homeOk, flagVars, initVars, logger, explicitPath,
                    restConfig, kubeEnv, listRequests >>

\* namespace, _, _ := kubeConfig.Namespace(); Pods(namespace).List(...) and what
\* follows it in PersistentPreRun
ListPods ==
    /\ pc = "listPods"
    /\ \E ok \in BOOLEAN :
         LET namespace == Namespace(restConfig)
             debug == IF UsesLogger(variant)
                      THEN LoggerCall(logger, logLevel, "debug",
                                      "running against namespace", namespace).entries
                      ELSE << >>
         IN  /\ listRequests' = Append(listRequests, namespace)
             /\ Step("List", IF ok THEN "ok" ELSE "error")
             /\ IF ok
                THEN /\ Goto("return")
                     /\ out' = out \o debug \o
                               (IF UsesLogger(variant)
                                THEN LoggerCall(logger, logLevel, "info",
                                                "returned pods", namespace).entries
                                ELSE << Println("pods", namespace) >>)
                ELSE IF ErrorIsFatal(variant, "List")
                THEN /\ Exit(1)
                     /\ out' = out \o debug \o
                               LoggerCall(logger, logLevel, "fatal",
                                          "failed to list pods", "err").entries
                ELSE /\ Goto("return")
                     /\ out' = out \o debug \o << Println("err", "List") >>
    /\ UNCHANGED << variant, homeOk, flagVars, initVars, logger, kubeClient,
                    explicitPath, restConfig, kubeEnv >>

\* PersistentPreRun returns, rootCmd.Execute() returns nil, main returns
Return ==
    /\ pc = "return"
    /\ Exit(0)
    /\ UNCHANGED << variant, homeOk, flagVars, initVars, runVars, out, trace >>

Next ==
    \/ ParseFlags
    \/ ExecuteError
    \/ initConfig
    \/ PreRunSetup
    \/ ClientConfig
    \/ NewForConfigOrDie
    \/ ListPods
    \/ Return

Spec == Init /\ [][Next]_vars

-----------------------------------------------------------------------------
(* Properties *)

Pipeline == << "initConfig", "ClientConfig", "NewForConfigOrDie", "List" >>

Exited == pc = "exited"
Ran(name) == \E i \in 1..Len(trace) : trace[i].step = name
Failed(name) == \E i \in 1..Len(trace) : trace[i].step = name /\ trace[i].result # "ok"
AllOk == \A i \in 1..Len(trace) : trace[i].result = "ok"
ConfigMessages == {"Using config file:", "loaded config from file"}

C2_FatalBeforeList ==
    (Failed("ClientConfig") \/ Failed("NewForConfigOrDie"))
        => Exited /\ exitCode # 0 /\ listRequests = << >>

C2_Witness ==
    /\ Failed("ClientConfig") /\ Exited /\ exitCode = 1
    /\ explicitPath = BadKubeconfig /\ kubeEnv.homeFile

\* C3: when the Pods list request returns an error, the error is reported and
\* the run never ends with exit status 0.
C3_ListErrorExitsNonZero ==
    Failed("List") =>
        /\ \E i \in 1..Len(out) : out[i].msg \in {"err", "failed to list pods"}
        /\ Exited => exitCode # 0

\* C4: when initConfig cannot read a config file (the --config file is absent
\* or unreadable, or the search finds no readable file), initConfig emits
\* nothing, does not end the run, loads no setting, and the run goes on to
\* PersistentPreRun.
C4_ReadFailureSilent ==
    (Ran("initConfig") /\ ConfigCandidate(cfgFile, homeOk, cfgEnv).status # "valid")
        => /\ trace[1].result = "ok"
           /\ configFileUsed = ""
           /\ pc = "preRun" => out = << >>
           /\ Len(trace) = 1 => pc \in {"preRun", "clientConfig"}
           /\ \A i \in 1..Len(out) : out[i].msg \notin ConfigMessages

C4_Witness ==
    /\ pc = "clientConfig" /\ variant = VHidden
    /\ cfgFile = ExplicitConfig /\ cfgEnv.explicit = "absent"
    /\ cfgEnv.home = "valid"

\* C5 as stated: a --config file that does not exist makes initConfig fall back
\* to the file of the fixed base name in the home directory, then in the current
\* directory, and load it.
C5_MissingExplicitFallsBack ==
    (Ran("initConfig") /\ cfgFile # "" /\ cfgEnv.explicit = "absent")
        => /\ (homeOk /\ cfgEnv.home = "valid") => configFileUsed = HomeConfig
           /\ ((~homeOk \/ cfgEnv.home = "absent") /\ cfgEnv.cwd = "valid")
                 => configFileUsed = CwdConfig

\* C5 amended: a --config file that does not exist is the only file tried: no
\* file is loaded even when one of the fixed base name is present in the home or
\* current directory, and initConfig prints nothing; with no --config the home
\* directory is searched first, then the current directory, and the first file
\* found is the one read.
C5_ExplicitOnlyElseHomeThenCwd ==
    Ran("initConfig") =>
        /\ (cfgFile # "" /\ cfgEnv.explicit = "absent")
              => /\ configFileUsed = ""
                 /\ \A i \in 1..Len(out) : out[i].msg \notin ConfigMessages
                 /\ trace[1].result = "ok"
        /\ (cfgFile # "" /\ cfgEnv.explicit = "valid") => configFileUsed = cfgFile
        /\ (cfgFile = "" /\ homeOk /\ cfgEnv.home = "valid")
              => configFileUsed = HomeConfig
        /\ (cfgFile = "" /\ homeOk /\ cfgEnv.home = "unreadable")
              => configFileUsed = ""
        /\ (cfgFile = "" /\ (~homeOk \/ cfgEnv.home = "absent") /\ cfgEnv.cwd = "valid")
              => configFileUsed = CwdConfig

C5_Witness ==
    /\ pc = "preRun" /\ cfgFile = ExplicitConfig /\ cfgEnv.explicit = "absent"
    /\ homeOk /\ cfgEnv.home = "valid" /\ cfgEnv.cwd = "valid"
    /\ configFileUsed = "" /\ out = << >>

\* C6: when the user gives no kubeconfig path flag, the loading rules get no
\* explicit path and ClientConfig resolves through the discovery chain, so it
\* succeeds whenever one source of the chain is available.
C6_NoFlagNoExplicitPath ==
    argv.kubeconfig = "" =>
        /\ explicitPath = ""
        /\ (Ran("ClientConfig")
              /\ (kubeEnv.homeFile \/ kubeEnv.envFile \/ kubeEnv.inCluster))
             => ~Failed("ClientConfig")

\* C7: each connection field the client is built with is the override flag's
\* value when the flag is given and the discovered value otherwise, and the
\* namespace of the Pods list request is the --namespace override when given,
\* else the discovered namespace ("default" when the source names none).
C7_OverridesTakePrecedence ==
    /\ (Ran("ClientConfig") /\ ~Failed("ClientConfig")) =>
          \A f \in Fields :
              restConfig[f] = IF argv.overrides[f] # "" THEN argv.overrides[f]
                                                       ELSE kubeEnv.found[f]
    /\ \A i \in 1..Len(listRequests) :
          listRequests[i] =
              IF argv.overrides["namespace"] # "" THEN argv.overrides["namespace"]
              ELSE IF kubeEnv.found["namespace"] # "" THEN kubeEnv.found["namespace"]
              ELSE "default"

C7_Witness ==
    /\ listRequests = << "from-flag" >>
    /\ kubeEnv.found["namespace"] = "from-file"
    /\ argv.overrides["cluster"] = "" /\ restConfig["cluster"] = "from-file"
    /\ argv.overrides["user"] = "from-flag" /\ restConfig["user"] = "from-flag"

\* C8: once initConfig has run, a message naming the config file is in the
\* output exactly when a config file was loaded.
C8_LoadedFileAnnounced ==
    Ran("initConfig") =>
        (configFileUsed # "" <=>
            \E i \in 1..Len(out) :
                out[i].msg \in ConfigMessages /\ out[i].arg = configFileUsed)

\* C9: a run issues at most one Pods list request; once the request has
\* returned, no request and no step follows; once a step has failed, no step
\* follows.
C9_NoRetry ==
    [][ /\ Len(listRequests') <= 1
        /\ Len(listRequests) = 1 => (listRequests' = listRequests /\ trace' = trace)
        /\ (trace # << >> /\ trace[Len(trace)].result # "ok") => trace' = trace
        /\ Exited => UNCHANGED vars ]_vars

C9_Witness ==
    /\ Exited /\ Len(listRequests) = 1 /\ Failed("List")
    /\ variant = VInteractive /\ exitCode = 0

\* C10: the package-level logger is built before anything calls it: no call of
\* logger.Info or logger.Fatal meets a nil logger.
C10_LoggerBuiltBeforeUse ==
    \A i \in 1..Len(out) : out[i] # PanicEntry

=============================================================================
